---- MODULE Spec2Model ----
(***************************************************************************)
(* fourree: the concurrent batch pipeline (util.rs, generate_data and      *)
(* generate_batch) and the output sinks (util.rs, initialize_output_thread)*)
(* as a state machine.  One owner context, num_threads generator workers,  *)
(* one output thread, and one unbounded mpsc channel between them.         *)
(***************************************************************************)
EXTENDS Integers, Sequences, FiniteSets, TLC

\* ------------------------------------------------------------------ bounds
MaxRows == 4
MaxBatchSize == 2
MaxThreads == 3
\* workers in the runs checked for termination under fairness
LiveMaxThreads == 2

\* ------------------------------------------------------- program constants
\* util.rs:129  `data.len() > 5242880`
PartThreshold == 5242880

\* Texts are sequences of tokens: single characters, and two tokens that
\* stand for long runs of characters other than newline.
\* bounds of the inputs of Schema::generate_row and Schema::generate_rows
MaxFields == 2
MaxFieldLen == 2
MaxValueLen == 3
MaxCount == 2
\* bounds of the numbers given to config::load on the command line
MaxOptRows == 2
MaxOptBatch == 2
MaxOptThreads == 2
\* bound of the inputs of generate_date: how far bytes[1] is from bytes[2]
MaxByteGap == 0

BlobTokens == {"ROW1M", "ROW5M"}

\* str::len of a token.  With the newline generate_rows appends, a long row
\* is 1 MiB or exactly the threshold, so that buffers below, at and above the
\* threshold, and batches that sum to 12 MiB, all occur.
TokenLen(t) ==
    CASE t = "ROW1M" -> PartThreshold \div 5 - 1
      [] t = "ROW5M" -> PartThreshold - 1
      [] OTHER -> 1

\* Natural lengths (in bytes) a long generated row may have.
RowLens == {TokenLen(t) : t \in BlobTokens}

\* util.rs:121  "done".to_string()
DoneText == <<"d", "o", "n", "e">>

\* The schemas of the runs: "wide" generates long rows of two lengths,
\* "done" has one Choice field whose only choice is the string "done".
Schemas == {"wide", "done"}

\* config.rs:16-22  enum OutputMode
OutputModes == {"None", "Stdout", "File", "PostgreSQL", "S3"}

\* config.rs:37  output_file: Option<String>; the values that matter to
\* util.rs:50-53 and util.rs:78-87: absent, without ':' and "bucket:key".
OutputFiles == {"absent", "output.txt", "bucket:key"}

VARIABLES
    \* Config (config.rs:30-39)
    num_rows, batch_size, num_threads, output_mode, output_file,
    display_header,
    \* the Schema handed to generate_data (schema.rs:55-59)
    schema,
    \* generate_data (util.rs:233-285)
    gd,            \* position of the calling context
    ownerError,    \* what made the calling context panic
    ownerSender,   \* output_channel is alive
    spawned,       \* handles pushed so far
    joined,        \* handles joined so far
    \* the generator threads (util.rs:254-261)
    wstate,        \* per worker: "unspawned", "running", "done", "panicked"
    sent,          \* per source (0 = calling context): batches sent
    \* the channel (util.rs:26)
    chan,          \* messages in flight, oldest first
    receiverAlive, \* the Receiver has not been dropped
    sentLog,       \* history: every message successfully sent, in send order
    \* the output thread (util.rs:28-217)
    sinkState,     \* "none","starting","loop","completing","aborting","done","panicked"
    received,      \* history: every message recv() returned, in order
    sawEOS,        \* recv() has returned Err
    output,        \* what has been written to stdout / the file writer, in order
    writer,        \* the batches held in the BufWriter of the file sink
    file,          \* the content of the destination file
    filesCreated,  \* File::create calls that succeeded
    sessions,      \* multipart sessions initiated
    part_number, data, completed_parts,
    uploaded,      \* parts the store accepted, in upload order
    uploadCalls, completeCalls, abortCalls,
    completeList,  \* the part list of the completion request
    failures,      \* history: kinds of failure that have happened
    \* one call of a function of schema.rs or of generate_batch, on its own
    call,          \* the function and its arguments
    result         \* what the call gave back

cfgVars == <<num_rows, batch_size, num_threads, output_mode, output_file,
             display_header, schema>>
ownerVars == <<gd, ownerError, ownerSender, spawned, joined>>
workerVars == <<wstate, sent>>
chanVars == <<chan, receiverAlive, sentLog>>
s3Vars == <<sessions, part_number, data, completed_parts, uploaded,
            uploadCalls, completeCalls, abortCalls, completeList>>
sinkVars == <<sinkState, received, sawEOS, output, writer, file, filesCreated>>
fnVars == <<call, result>>
vars == <<cfgVars, ownerVars, workerVars, chanVars, sinkVars, s3Vars, failures, fnVars>>

Workers == 1..MaxThreads
Sources == 0..MaxThreads

\* ------------------------------------------------------------ pure helpers

Fixed == "fixed"
Delimiters == {Fixed, ","}
PadChar == "0"
Digit == "7"

Repeat(c, n) == [k \in 1..n |-> c]

\* schema.rs:24-25  Option<usize>, Option<char>: <<>> is None, <<x>> is Some(x)
Lengths == {<<>>} \cup {<<n>> : n \in 0..MaxFieldLen}
Paddings == {<<>>, <<PadChar>>}
\* schema.rs:30-52  Field::generate: the text a generator returns
Values == {Repeat(Digit, n) : n \in 0..MaxValueLen}
\* schema.rs:21-27  a Field together with the value generated for it in one
\* row; its name is its position in the schema
Fields == [length : Lengths, padding : Paddings, value : Values]

\* usize arithmetic; TLC integers have 32 bits, so 2^30 stands for 2^64
\* (all operands are far below it).
UsizeModulus == 2^30
wrapping_sub(a, b) == (a - b) % UsizeModulus
Not(x) == UsizeModulus - 1 - x

\* pad crate, pad(width, c, Alignment::Right, false): the text moves to the
\* right, the fill goes to its left; a longer text is returned unchanged.
pad(s, width, c) ==
    IF Len(s) >= width THEN s ELSE Repeat(c, width - Len(s)) \o s

RECURSIVE join(_, _)
\* [String]::join
join(parts, delim) ==
    IF parts = <<>> THEN <<>>
    ELSE IF Len(parts) = 1 THEN parts[1]
    ELSE parts[1] \o delim \o join(Tail(parts), delim)

\* (variant: nothing between the values, whatever the delimiter)
DelimNone(delimiter) == <<>>
\* schema.rs:112-117  "fixed" => "", d => d
Delim(delimiter) == IF delimiter = Fixed THEN <<>> ELSE <<delimiter>>

RowOk(parts, delimiter) ==
    [ok |-> TRUE, outcome |-> "Ok", error |-> "none", field |-> 0, parts |-> parts,
     text |-> join(parts, Delim(delimiter)), len |-> Len(join(parts, Delim(delimiter)))]
RowFailed(outcome, error, i) ==
    [ok |-> FALSE, outcome |-> outcome, error |-> error, field |-> i, parts |-> <<>>,
     text |-> <<>>, len |-> 0]

RECURSIVE generate_row_from(_, _, _, _, _)
\* schema.rs:85-110  the loop over the fields. overflow_checks: the build
\* panics on `field_length - field_data.len()` below zero (debug profile)
\* or wraps (release profile).
generate_row_from(delimiter, fields, overflow_checks, i, parts) ==
    IF i > Len(fields) THEN RowOk(parts, delimiter)
    ELSE LET field == fields[i]
             field_data == field.value
         IN IF delimiter # Fixed
            THEN generate_row_from(delimiter, fields, overflow_checks, i + 1,
                                   Append(parts, field_data))
            ELSE IF field.length = <<>> THEN RowFailed("Err", "length", i)
            ELSE LET field_length == field.length[1] IN
                 IF field.padding # <<>>
                 THEN generate_row_from(delimiter, fields, overflow_checks, i + 1,
                          Append(parts, pad(field_data, field_length, field.padding[1])))
                 ELSE IF Len(field_data) > field_length /\ overflow_checks
                      THEN RowFailed("panic", "overflow", i)
                 ELSE LET length_diff == wrapping_sub(field_length, Len(field_data)) IN
                      IF Not(length_diff) = 0
                      THEN RowFailed("Err", "padding", i)
                      ELSE generate_row_from(delimiter, fields, overflow_checks, i + 1,
                                             Append(parts, field_data))

\* schema.rs:82-118  Schema::generate_row
generate_row(delimiter, fields, overflow_checks) ==
    generate_row_from(delimiter, fields, overflow_checks, 1, <<>>)

\* config.rs:11-13
NUM_ROWS_DEFAULT == 1000
BATCH_SIZE_DEFAULT == 1
MAX_THREADS == 128

\* A numeric option of the command line: absent, present with a text that
\* parse::<u64>() rejects, or present with a number.
NumOpt(values) ==
    {[present |-> FALSE, parses |-> FALSE, value |-> 0],
     [present |-> TRUE, parses |-> FALSE, value |-> 0]}
    \cup {[present |-> TRUE, parses |-> TRUE, value |-> v] : v \in values}

\* config.rs:123-150  -n and -b: the number, or the default with a warning
NumOr(opt, default) == IF opt.present /\ opt.parses THEN opt.value ELSE default

\* config.rs:153-172  -t
Threads(opt) ==
    IF opt.present /\ opt.parses
    THEN (IF opt.value > MAX_THREADS THEN MAX_THREADS ELSE opt.value)
    ELSE 1

\* config.rs:175-204  -o
ModeOf(o) ==
    CASE o \in {"absent", "stdout"} -> "Stdout"
      [] o = "file" -> "File"
      [] o = "postgresql" -> "PostgreSQL"
      [] o = "s3" -> "S3"
      [] OTHER -> "None"

NoConfig ==
    [num_rows |-> 0, batch_size |-> 0, num_threads |-> 0, log_type |-> "File",
     output_mode |-> "None", output_file |-> "absent", display_header |-> FALSE]
LoadErr(why) == [outcome |-> "Err", error |-> why, config |-> NoConfig]
LoadPanic(why) == [outcome |-> "panic", error |-> why, config |-> NoConfig]

\* config.rs:47-236  load(args)
load(args) ==
    IF ~args.parse THEN LoadErr("usage")
    ELSE IF args.l = "unwritable" THEN LoadPanic("logger")
    ELSE IF args.h THEN LoadErr("help")
    ELSE IF args.input = "absent" THEN LoadErr("input")
    ELSE IF args.input = "http_failed" THEN LoadErr("http")
    ELSE IF args.input = "unreadable" THEN LoadPanic("open")
    ELSE
    LET log_type == IF args.l = "stdout" THEN "Console" ELSE "File"
        rows == NumOr(args.n, NUM_ROWS_DEFAULT)
        batch == NumOr(args.b, BATCH_SIZE_DEFAULT)
        threads == Threads(args.t)
        mode == ModeOf(args.o)
        path == IF mode \in {"File", "S3"}
                THEN (IF args.f = "absent" THEN "output.txt" ELSE args.f)
                ELSE "absent"
    IN IF args.o \in {"absent", "stdout"} /\ log_type = "Console" THEN LoadErr("stdout")
       ELSE IF batch = 0 \/ threads = 0 THEN LoadPanic("divzero")
       ELSE IF (rows \div batch) % threads # 0 THEN LoadErr("divisible")
       ELSE [outcome |-> "Ok", error |-> "none",
             config |-> [num_rows |-> rows, batch_size |-> batch, num_threads |-> threads,
                         log_type |-> log_type, output_mode |-> mode,
                         output_file |-> path, display_header |-> args.d]]

\* u8 and u16
MaxByte == 255
Bytes == 0..MaxByte
U8 == 2^8
U16 == 2^16

\* (variant: every month has 31 days)
day_range_thirty_one(month) == 31
\* generators.rs:83-87
day_range(month) ==
    IF month \in {1, 3, 5, 7, 8, 10, 12} THEN 31
    ELSE IF month = 2 THEN 28
    ELSE 30

\* generators.rs:76-96  generate_date, on the three bytes of fill_bytes.
\* u16 products and sums wrap at 2^16, `as u8` keeps the low 8 bits, u8 sums
\* wrap at 2^8 (a build with overflow checks panics there); `overflow`
\* records that some intermediate value did not fit.
generate_date(bytes) ==
    LET month_product == bytes[1] * 11
        month_quotient == (month_product % U16) \div 255
        month == ((month_quotient % U8) + 1) % U8
        year_product == bytes[2] * 115
        year_sum == ((year_product % U16) \div 255) + 1900
        year == ((year_sum % U16) + 1) % U16
        day_product == bytes[3] * (day_range(month) - 1)
        day_quotient == (day_product % U16) \div 255
        day == ((day_quotient % U8) + 1) % U8
    IN [month |-> month, day |-> day, year |-> year,
        overflow |-> \/ month_product >= U16 \/ month_quotient >= U8
                     \/ (month_quotient % U8) + 1 >= U8
                     \/ year_product >= U16 \/ year_sum >= U16
                     \/ (year_sum % U16) + 1 >= U16
                     \/ day_product >= U16 \/ day_quotient >= U8
                     \/ (day_quotient % U8) + 1 >= U8]

\* schema.rs:22  Field.name
Names == {<<"a">>, <<"b">>}

\* schema.rs:66-80  Schema::generate_header. The joined text of schema.rs:78
\* is a statement whose value is dropped, and the value of the body is that
\* of `result.push('\n')` on the vector of names, the unit value: the body
\* does not have the declared type String and no header text is returned.
generate_header(delimiter, names) ==
    LET vec == names
        delim == Delim(delimiter)
    IN [outcome |-> "unit", text |-> <<>>,
        dropped |-> join(vec, delim),
        vec |-> Append(vec, <<"\n">>)]

\* what generate_row gives for the rows of a batch: the results over the
\* one-field fixed-width schemas
FnRowOutcomes ==
    {generate_row(Fixed, <<f>>, c) : f \in Fields, c \in BOOLEAN}

\* schema.rs:82-118  generate_row: an error, or a row text of some length.
RowOutcomes ==
    (IF schema = "done"
     THEN {[ok |-> TRUE, len |-> Len(DoneText), text |-> DoneText]}
     ELSE {[ok |-> TRUE, len |-> TokenLen(t), text |-> <<t>>] : t \in BlobTokens})
    \cup {[ok |-> FALSE, len |-> 0, text |-> <<>>]}

\* schema.rs:120-130  generate_rows: `size` rows, each followed by '\n';
\* the first failing row aborts the batch with `?`.
RECURSIVE generate_rows_skipping(_, _, _, _)
\* (variant: a failing row is left out of the batch)
generate_rows_skipping(rows, size, i, acc) ==
    IF i > size THEN acc
    ELSE IF ~rows[i].ok THEN generate_rows_skipping(rows, size, i + 1, acc)
    ELSE generate_rows_skipping(rows, size, i + 1,
            [ok |-> TRUE, rows |-> acc.rows + 1, len |-> acc.len + rows[i].len + 1,
             text |-> acc.text \o rows[i].text \o <<"\n">>])

RECURSIVE generate_rows_from(_, _, _, _)
generate_rows_from(rows, size, i, acc) ==
    IF i > size THEN acc
    ELSE IF ~rows[i].ok
         THEN [ok |-> FALSE, rows |-> 0, len |-> 0, text |-> <<>>, err |-> rows[i]]
    ELSE generate_rows_from(rows, size, i + 1,
            [ok |-> TRUE, rows |-> acc.rows + 1, len |-> acc.len + rows[i].len + 1,
             text |-> acc.text \o rows[i].text \o <<"\n">>])

\* (variant: newlines between the rows only)
generate_rows_joined(rows, size) ==
    LET r == generate_rows_from(rows, size, 1,
                 [ok |-> TRUE, rows |-> 0, len |-> 0, text |-> <<>>])
    IN IF r.ok /\ r.text # <<>>
       THEN [r EXCEPT !.text = SubSeq(r.text, 1, Len(r.text) - 1), !.len = r.len - 1]
       ELSE r

\* (variant: the loop runs over 1..size)
generate_rows_one_short(rows, size) ==
    generate_rows_from(rows, size, 2, [ok |-> TRUE, rows |-> 0, len |-> 0, text |-> <<>>])

generate_rows(rows, size) ==
    generate_rows_from(rows, size, 1, [ok |-> TRUE, rows |-> 0, len |-> 0, text |-> <<>>])

\* (variant: one batch too many)
num_batches_plus_one == num_rows \div batch_size + 1
\* util.rs:241  let num_batches = config.num_rows / config.batch_size;
num_batches == num_rows \div batch_size

\* util.rs:243  let batches_per_thread = num_batches / config.num_threads;
batches_per_thread == num_batches \div num_threads

\* std::sync::mpsc: a Sender lives in output_channel and in each running
\* worker's thread_channel clone (util.rs:253).
SendersAlive == ownerSender \/ \E w \in Workers : wstate[w] = "running"

\* (variant: Err as soon as every Sender is gone)
DisconnectedIgnoringQueue == ~SendersAlive
\* std::sync::mpsc recv(): Err only when every Sender is gone and the queue
\* is empty (util.rs:35, 60, 115).
Disconnected == ~SendersAlive /\ chan = <<>>

\* (variant: sync_channel(1), a queue of one message)
HasRoomForOne(q) == Len(q) < 1
\* util.rs:26  channel(): the queue has no capacity limit, a send never
\* waits for room.
HasRoom(q) == TRUE

\* (variant: a LIFO queue)
EnqueueFront(q, m) == <<m>> \o q
\* std::sync::mpsc send(): the message goes to the back of the queue.
Enqueue(q, m) == Append(q, m)

RECURSIVE DataLen(_)
\* String::len of the concatenation of the messages of a buffer
DataLen(s) == IF s = <<>> THEN 0 ELSE Head(s).len + DataLen(Tail(s))

\* (variant: no flush on size)
ShouldFlushOnlyAtEnd(buf, done) == done
\* (variant: no flush at end-of-stream)
ShouldFlushOnSizeOnly(buf, done) == DataLen(buf) > PartThreshold
\* (variant: every message is a part)
ShouldFlushAlways(buf, done) == TRUE
\* (variant: a part for every message and at end-of-stream, if not empty)
ShouldFlushNonEmpty(buf, done) == buf # <<>>
\* (variant: at end-of-stream only what is not empty is uploaded)
ShouldFlushAtEndIfData(buf, done) ==
    DataLen(buf) > PartThreshold \/ (done /\ buf # <<>>)
\* util.rs:129  if data.len() > 5242880 || &message == "done"
ShouldFlush(buf, done) == DataLen(buf) > PartThreshold \/ done

\* the entity tag the store returns for a part (opaque; one per part)
ETag(n) == <<"etag", n>>

\* ------------------------------------------------------------------- Init
\* Everything but display_header, which generate_data never reads
\* (util.rs:233-285).
Start ==
    /\ num_rows \in 0..MaxRows
    /\ batch_size \in 0..MaxBatchSize
    /\ num_threads \in 0..MaxThreads
    /\ output_mode \in OutputModes
    /\ output_file \in OutputFiles
    \* config.rs:214-216: None in the modes that do not read it
    /\ output_mode \notin {"File", "S3"} => output_file = "absent"
    /\ schema \in Schemas
    /\ gd = "start" /\ ownerError = "none" /\ ownerSender = FALSE
    /\ spawned = 0 /\ joined = 0
    /\ wstate = [w \in Workers |-> "unspawned"]
    /\ sent = [s \in Sources |-> 0]
    /\ chan = <<>> /\ receiverAlive = FALSE /\ sentLog = <<>>
    /\ sinkState = "none" /\ received = <<>> /\ sawEOS = FALSE
    /\ output = <<>> /\ writer = <<>> /\ file = <<>> /\ filesCreated = 0
    /\ sessions = 0 /\ part_number = 1 /\ data = <<>> /\ completed_parts = <<>>
    /\ uploaded = <<>> /\ uploadCalls = 0 /\ completeCalls = 0 /\ abortCalls = 0
    /\ completeList = <<>>
    /\ failures = {}
    /\ call = [fn |-> "generate_data"]
    /\ result = [done |-> FALSE]

\* The runs without -d; those with it are the runs of HeaderSpec.
Init == Start /\ display_header = FALSE


\* --------------------------------------------------- the calling context

\* A panic of the calling context unwinds generate_data: output_channel is
\* dropped, the JoinHandles are dropped (the threads are detached).
OwnerPanic(kind) ==
    /\ gd' = "panicked"
    /\ ownerError' = kind
    /\ ownerSender' = FALSE
    /\ failures' = failures \cup {kind}

\* (variant: the error of create_multipart_upload is only logged)
AfterInitiateContinue(ok) == "compute"
\* util.rs:101-104: Err(error) => panic!(error)
AfterInitiate(ok) == IF ok THEN "compute" ELSE "panicked"

\* (variant: only the output file is checked)
BadConfigFileOnly ==
    \/ output_mode \in {"File", "S3"} /\ output_file = "absent"
    \/ output_mode = "S3" /\ output_file = "output.txt"
\* util.rs:50-53, 74-87, 214-216: the panics of initialize_output_thread on
\* the configuration: PostgreSQL and None, no output_file in File or S3
\* mode, an output_file without ':' in S3 mode.
BadConfig ==
    \/ output_mode \in {"PostgreSQL", "None"}
    \/ output_mode \in {"File", "S3"} /\ output_file = "absent"
    \/ output_mode = "S3" /\ output_file = "output.txt"

\* util.rs:24-220 initialize_output_thread, up to the spawn of the thread.
\* A panic here is a panic of the calling context: the channel is dropped
\* and no thread has been spawned.
InitOutput ==
    /\ gd = "start"
    /\ \E createOk \in BOOLEAN :
         LET s3 == output_mode = "S3" IN
         IF BadConfig
         THEN /\ OwnerPanic("config")
              /\ UNCHANGED <<spawned, joined, receiverAlive, sinkState, sessions>>
         ELSE /\ gd' = IF s3 THEN AfterInitiate(createOk) ELSE "compute"
              /\ failures' = IF s3 /\ ~createOk
                             THEN failures \cup {"initiate"} ELSE failures
              /\ ownerError' = IF gd' = "panicked" THEN "initiate" ELSE ownerError
              /\ ownerSender' = (gd' # "panicked")
              /\ receiverAlive' = (gd' # "panicked")
              /\ sinkState' = IF gd' = "panicked" THEN sinkState
                              ELSE IF output_mode = "File" THEN "starting" ELSE "loop"
              /\ sessions' = IF s3 /\ createOk THEN sessions + 1 ELSE sessions
              /\ UNCHANGED <<spawned, joined>>
    /\ UNCHANGED <<cfgVars, fnVars, workerVars, chan, sentLog, received, sawEOS, output, writer, file,
                   filesCreated, part_number, data, completed_parts, uploaded,
                   uploadCalls, completeCalls, abortCalls, completeList>>

\* (variant: only the first division can fail)
DivisionByZeroBatchOnly == batch_size = 0
\* util.rs:241  config.num_rows / config.batch_size  and util.rs:243
\* num_batches / config.num_threads: a division by zero panics.
DivisionByZero == batch_size = 0 \/ num_threads = 0

\* util.rs:241-245: the two divisions, then the choice of the path.
Compute ==
    /\ gd = "compute"
    /\ IF DivisionByZero
       THEN OwnerPanic("divzero")
       ELSE /\ gd' = IF num_threads > 1 THEN "spawn" ELSE "single"
            /\ UNCHANGED <<ownerError, ownerSender, failures>>
    /\ UNCHANGED <<cfgVars, fnVars, spawned, joined, workerVars, chanVars, sinkVars, s3Vars>>

\* util.rs:251-262: one iteration of the spawn loop.
SpawnWorker ==
    /\ gd = "spawn"
    /\ spawned < num_threads
    /\ spawned' = spawned + 1
    /\ wstate' = [wstate EXCEPT ![spawned + 1] = "running"]
    /\ gd' = IF spawned + 1 = num_threads THEN "join" ELSE "spawn"
    /\ UNCHANGED <<cfgVars, fnVars, ownerError, ownerSender, joined, sent, chanVars,
                   sinkVars, s3Vars, failures>>

\* (variant: the result of join() is dropped)
JoinIgnoresPanic(w) == FALSE
\* util.rs:266  handle.join().unwrap(): Err when the thread panicked.
JoinIsErr(w) == wstate[w] = "panicked"

\* util.rs:265-268: one iteration of the join loop.
JoinWorker ==
    /\ gd = "join"
    /\ joined < num_threads
    /\ wstate[joined + 1] \in {"done", "panicked"}
    /\ IF JoinIsErr(joined + 1)
       THEN /\ OwnerPanic("worker_join")
            /\ UNCHANGED joined
       ELSE /\ joined' = joined + 1
            /\ UNCHANGED <<gd, ownerError, ownerSender, failures>>
    /\ UNCHANGED <<cfgVars, fnVars, spawned, workerVars, chanVars, sinkVars, s3Vars>>

\* (variant: the result of send is not looked at)
BatchOutcomeSendUnchecked(r) ==
    IF ~r.ok THEN "gen" ELSE "ok"
\* util.rs:223-230 generate_batch, by source `src` (0 is the calling context):
\* the result of generate_rows is unwrapped, then sent, and the send unwrapped.
\* Gives "gen", "send" or "ok".
BatchOutcome(r) ==
    IF ~r.ok THEN "gen" ELSE IF ~receiverAlive THEN "send" ELSE "ok"

Message(src, r) ==
    [src |-> src, seq |-> sent[src] + 1, rows |-> r.rows, len |-> r.len, text |-> r.text]

\* util.rs:274-276: one iteration of the single-threaded loop.
SingleBatch ==
    /\ gd = "single"
    /\ sent[0] < num_batches
    /\ HasRoom(chan) \/ ~receiverAlive
    /\ \E rows \in [1..batch_size -> RowOutcomes] :
         LET r == generate_rows(rows, batch_size) IN
         IF BatchOutcome(r) = "ok"
         THEN /\ chan' = Enqueue(chan, Message(0, r))
              /\ sentLog' = Append(sentLog, Message(0, r))
              /\ sent' = [sent EXCEPT ![0] = @ + 1]
              /\ UNCHANGED <<gd, ownerError, ownerSender, failures>>
         ELSE /\ OwnerPanic(BatchOutcome(r))
              /\ UNCHANGED <<chan, sentLog, sent>>
    /\ UNCHANGED <<cfgVars, fnVars, spawned, joined, wstate, receiverAlive, sinkVars, s3Vars>>

\* (variant: output_channel outlives the inner scope)
SenderKeptAfterScope == TRUE
\* util.rs:270, 278: the scope of output_channel ends; TRUE iff the Sender
\* is still alive afterwards.
SenderAfterScope == FALSE

OwnerDrop ==
    /\ \/ gd = "single" /\ sent[0] = num_batches
       \/ gd = "join" /\ joined = num_threads
    /\ ownerSender' = SenderAfterScope
    /\ gd' = "join_output"
    /\ UNCHANGED <<cfgVars, fnVars, ownerError, spawned, joined, workerVars, chanVars,
                   sinkVars, s3Vars, failures>>

\* util.rs:281-284  output_thread.join(): Ok => return, Err => panic.
JoinOutput ==
    /\ gd = "join_output"
    /\ sinkState \in {"done", "panicked"}
    /\ IF sinkState = "panicked"
       THEN OwnerPanic("sink_join")
       ELSE /\ gd' = "returned"
            /\ UNCHANGED <<ownerError, ownerSender, failures>>
    /\ UNCHANGED <<cfgVars, fnVars, spawned, joined, workerVars, chanVars, sinkVars, s3Vars>>

\* --------------------------------------------------- the generator threads

\* (variant: a worker stops when a sibling has panicked)
RunningUnlessSiblingFailed(w) ==
    wstate[w] = "running" /\ \A v \in Workers : wstate[v] # "panicked"
\* util.rs:254-261: the closure of a worker looks at nothing but its own
\* loop counter; it goes on for as long as it has not ended or panicked.
Running(w) == wstate[w] = "running"

\* util.rs:258-260: one iteration of a worker's loop.
WorkerBatch(w) ==
    /\ Running(w)
    /\ sent[w] < batches_per_thread
    /\ HasRoom(chan) \/ ~receiverAlive
    /\ \E rows \in [1..batch_size -> RowOutcomes] :
         LET r == generate_rows(rows, batch_size) IN
         IF BatchOutcome(r) = "ok"
         THEN /\ chan' = Enqueue(chan, Message(w, r))
              /\ sentLog' = Append(sentLog, Message(w, r))
              /\ sent' = [sent EXCEPT ![w] = @ + 1]
              /\ UNCHANGED <<wstate, failures>>
         ELSE /\ wstate' = [wstate EXCEPT ![w] = "panicked"]
              /\ failures' = failures \cup {BatchOutcome(r)}
              /\ UNCHANGED <<chan, sentLog, sent>>
    /\ UNCHANGED <<cfgVars, fnVars, ownerVars, receiverAlive, sinkVars, s3Vars>>

\* util.rs:261: the closure ends, thread_channel is dropped.
WorkerFinish(w) ==
    /\ Running(w)
    /\ sent[w] = batches_per_thread
    /\ wstate' = [wstate EXCEPT ![w] = "done"]
    /\ UNCHANGED <<cfgVars, fnVars, ownerVars, sent, chanVars, sinkVars, s3Vars, failures>>

\* ------------------------------------------------------ the output thread

\* A panic of the output thread drops the Receiver and what is queued in it.
SinkPanic(kind) ==
    /\ sinkState' = "panicked"
    /\ receiverAlive' = FALSE
    /\ chan' = <<>>
    /\ failures' = failures \cup {kind}

\* util.rs:56  File::create(output_file).unwrap()
SinkCreateFile ==
    /\ sinkState = "starting"
    /\ \E ok \in BOOLEAN :
         IF ok
         THEN /\ filesCreated' = filesCreated + 1
              /\ sinkState' = "loop"
              /\ UNCHANGED <<chan, receiverAlive, failures>>
         ELSE /\ SinkPanic("create")
              /\ UNCHANGED filesCreated
    /\ UNCHANGED <<cfgVars, fnVars, ownerVars, workerVars, sentLog, received, sawEOS,
                   output, writer, file, s3Vars>>

\* std::io::BufWriter, DEFAULT_BUF_SIZE (util.rs:57 BufWriter::new)
BufCapacity == 8192

\* BufWriter::write(buf): the buffer is written out first when buf does not
\* fit behind it; a buf of at least the capacity is passed to File::write
\* directly, anything smaller is kept in the buffer.
NeedFlush(m) == DataLen(writer) + m.len > BufCapacity
Direct(m) == m.len >= BufCapacity

\* util.rs:45  write!(stdout_lock, ..).unwrap()
\* util.rs:70  writer.write(output.as_bytes()).unwrap(): the write to the
\* file is taken to accept the whole buffer or to fail; keeping a batch in
\* the BufWriter cannot fail.
WriteOutcomes(m) ==
    {"ok"} \cup
    (IF output_mode = "Stdout" \/ Direct(m) \/ (NeedFlush(m) /\ writer # <<>>)
     THEN {"err"} ELSE {})

\* util.rs:34-46 (stdout) and util.rs:59-71 (file): one iteration of the loop.
SinkWrite ==
    /\ sinkState = "loop"
    /\ output_mode \in {"Stdout", "File"}
    /\ chan # <<>>
    /\ received' = Append(received, Head(chan))
    /\ \E outcome \in WriteOutcomes(Head(chan)) :
         LET m == Head(chan) IN
         IF outcome = "err"
         THEN /\ SinkPanic("write")
              /\ UNCHANGED <<output, writer, file>>
         ELSE /\ output' = Append(output, m)
              /\ chan' = Tail(chan)
              /\ writer' = IF output_mode # "File" THEN writer
                           ELSE IF Direct(m) THEN <<>>
                           ELSE IF NeedFlush(m) THEN <<m>>
                           ELSE Append(writer, m)
              /\ file' = IF output_mode # "File" THEN file
                         ELSE (IF NeedFlush(m) \/ Direct(m) THEN file \o writer ELSE file)
                              \o (IF Direct(m) THEN <<m>> ELSE <<>>)
              /\ UNCHANGED <<sinkState, receiverAlive, failures>>
    /\ UNCHANGED <<cfgVars, fnVars, ownerVars, workerVars, sentLog, sawEOS, filesCreated,
                   s3Vars>>

\* util.rs:71-72: the closure ends and the BufWriter is dropped; what it
\* holds is written out, and an error of that write is ignored.
DropOutcomes == IF output_mode = "File" /\ writer # <<>> THEN BOOLEAN ELSE {TRUE}

\* util.rs:39-42 and util.rs:64-67: recv() is Err, the loop breaks and the
\* thread ends.
SinkEnd ==
    /\ sinkState = "loop"
    /\ output_mode \in {"Stdout", "File"}
    /\ Disconnected
    /\ sawEOS' = TRUE
    /\ sinkState' = "done"
    /\ receiverAlive' = FALSE
    /\ \E flushed \in DropOutcomes :
         /\ file' = IF flushed THEN file \o writer ELSE file
         /\ writer' = <<>>
    /\ UNCHANGED <<cfgVars, fnVars, ownerVars, workerVars, chan, sentLog, received, output,
                   filesCreated, s3Vars, failures>>

\* (variant: the part is recorded after the increment)
CompletedPartAfterIncrement(tag, n) == [e_tag |-> tag, part_number |-> n + 1]
\* util.rs:150-153  CompletedPart { e_tag, part_number: Some(part_number) }
CompletedPart(tag, n) == [e_tag |-> tag, part_number |-> n]

\* (variant: the buffer is not cleared)
Kept(buf) == buf
\* util.rs:132-133  data.clone().into_bytes(); data.clear(): what is left in
\* the buffer once its content has been taken for the part
Cleared(buf) == <<>>

\* util.rs:144-155: upload_part (the store keeps the body under the part
\* number and answers with a tag), the push onto completed_parts and the
\* increment; data has been cleared before the call (util.rs:133).
UploadPart(buf, ok) ==
    /\ uploadCalls' = uploadCalls + 1
    /\ data' = Cleared(buf)
    /\ IF ok
       THEN /\ uploaded' = Append(uploaded, [part_number |-> part_number, body |-> buf,
                                             e_tag |-> ETag(part_number)])
            /\ completed_parts' = Append(completed_parts,
                    CompletedPart(ETag(part_number), part_number))
            /\ part_number' = part_number + 1
       ELSE UNCHANGED <<uploaded, completed_parts, part_number>>

\* util.rs:125, 129, 158  &message == "done"
IsDone(text) == text = DoneText

\* util.rs:114-161: one iteration of the multipart loop.  `eos` is a recv()
\* error, of which the loop makes the message "done"; `done` is what the
\* loop tests.
SinkS3Step ==
    /\ sinkState = "loop"
    /\ output_mode = "S3"
    /\ chan # <<>> \/ Disconnected
    /\ LET eos == chan = <<>>
           message == IF eos THEN DoneText ELSE Head(chan).text
           done == IsDone(message)
           buf == IF done THEN data ELSE Append(data, Head(chan))
       IN
       /\ received' = IF eos THEN received ELSE Append(received, Head(chan))
       /\ sawEOS' = (sawEOS \/ eos)
       /\ IF ShouldFlush(buf, done)
          THEN \E ok \in BOOLEAN :
                 /\ UploadPart(buf, ok)
                 /\ IF ok
                    THEN /\ sinkState' = IF done THEN "completing" ELSE "loop"
                         /\ chan' = IF eos THEN chan ELSE Tail(chan)
                         /\ UNCHANGED <<receiverAlive, failures>>
                    ELSE SinkPanic("upload")
          ELSE /\ data' = buf
               /\ chan' = IF eos THEN chan ELSE Tail(chan)
               /\ sinkState' = IF done THEN "completing" ELSE "loop"
               /\ UNCHANGED <<receiverAlive, failures, uploaded,
                              completed_parts, part_number, uploadCalls>>
    /\ UNCHANGED <<cfgVars, fnVars, ownerVars, workerVars, sentLog, output, writer, file, filesCreated,
                   sessions, completeCalls, abortCalls, completeList>>

\* (variant: no abort after a failed completion)
AfterCompleteNoAbort(ok) == "done"
\* util.rs:174-181: what follows the completion call.
AfterComplete(ok) == IF ok THEN "done" ELSE "aborting"

\* util.rs:163-181: complete_multipart_upload with the recorded parts.
SinkComplete ==
    /\ sinkState = "completing"
    /\ completeCalls' = completeCalls + 1
    /\ completeList' = completed_parts
    /\ \E ok \in BOOLEAN :
         /\ sinkState' = AfterComplete(ok)
         /\ failures' = IF ok THEN failures ELSE failures \cup {"complete"}
         /\ receiverAlive' = IF sinkState' = "done" THEN FALSE ELSE receiverAlive
    /\ UNCHANGED <<cfgVars, fnVars, ownerVars, workerVars, chan, sentLog, received, sawEOS,
                   output, writer, file, filesCreated, sessions, part_number, data,
                   completed_parts, uploaded, uploadCalls, abortCalls>>

\* util.rs:182-199: abort_multipart_upload; its result is only logged, then
\* the thread returns.
SinkAbort ==
    /\ sinkState = "aborting"
    /\ abortCalls' = abortCalls + 1
    /\ \E ok \in BOOLEAN :
         failures' = IF ok THEN failures ELSE failures \cup {"abort"}
    /\ sinkState' = "done"
    /\ receiverAlive' = FALSE
    /\ UNCHANGED <<cfgVars, fnVars, ownerVars, workerVars, chan, sentLog, received, sawEOS,
                   output, writer, file, filesCreated, sessions, part_number, data,
                   completed_parts, uploaded, uploadCalls, completeCalls,
                   completeList>>

\* ------------------------------------------------------------ specification
Next ==
    \/ InitOutput
    \/ Compute
    \/ SpawnWorker
    \/ JoinWorker
    \/ SingleBatch
    \/ OwnerDrop
    \/ JoinOutput
    \/ \E w \in Workers : WorkerBatch(w)
    \/ \E w \in Workers : WorkerFinish(w)
    \/ SinkCreateFile
    \/ SinkWrite
    \/ SinkEnd
    \/ SinkS3Step
    \/ SinkComplete
    \/ SinkAbort

Spec == Init /\ [][Next]_vars

\* config.rs:224  display_header: matches.opt_present("d")
HeaderInit == Start /\ num_threads <= LiveMaxThreads /\ display_header \in BOOLEAN

HeaderSpec == HeaderInit /\ [][Next]_vars

\* Threads that can run are eventually run.
FairInit == Init /\ num_threads <= LiveMaxThreads

FairSpec ==
    /\ FairInit /\ [][Next]_vars
    /\ WF_vars(InitOutput) /\ WF_vars(Compute) /\ WF_vars(SpawnWorker)
    /\ WF_vars(JoinWorker) /\ WF_vars(SingleBatch) /\ WF_vars(OwnerDrop)
    /\ WF_vars(JoinOutput)
    /\ \A w \in Workers : WF_vars(WorkerBatch(w)) /\ WF_vars(WorkerFinish(w))
    /\ WF_vars(SinkCreateFile) /\ WF_vars(SinkWrite) /\ WF_vars(SinkEnd)
    /\ WF_vars(SinkS3Step) /\ WF_vars(SinkComplete) /\ WF_vars(SinkAbort)

\* ------------------------------- the functions of schema.rs, one call each

RowCalls ==
    [fn : {"generate_row"}, delimiter : Delimiters,
     fields : UNION {[1..n -> Fields] : n \in 0..MaxFields}]
RowsCalls ==
    UNION {[fn : {"generate_rows", "generate_batch"}, size : {n},
            rows : [1..n -> FnRowOutcomes]] : n \in 0..MaxCount}

HeaderCalls ==
    [fn : {"generate_header"}, delimiter : Delimiters,
     names : UNION {[1..n -> Names] : n \in 0..MaxFields}]

\* The rest of the state while one function is called on its own.
CallIdle ==
    /\ result = [done |-> FALSE]
    /\ num_rows = 0 /\ batch_size = 0 /\ num_threads = 1
    /\ output_mode = "Stdout" /\ output_file = "" /\ schema = "wide"
    /\ display_header = FALSE
    /\ gd = "single" /\ ownerError = "none" /\ ownerSender = TRUE
    /\ spawned = 0 /\ joined = 0
    /\ wstate = [w \in Workers |-> "unspawned"]
    /\ sent = [s \in Sources |-> 0]
    /\ chan = <<>> /\ sentLog = <<>>
    /\ sinkState = "loop" /\ received = <<>> /\ sawEOS = FALSE
    /\ output = <<>> /\ writer = <<>> /\ file = <<>> /\ filesCreated = 0
    /\ sessions = 0 /\ part_number = 1 /\ data = <<>> /\ completed_parts = <<>>
    /\ uploaded = <<>> /\ uploadCalls = 0 /\ completeCalls = 0 /\ abortCalls = 0
    /\ completeList = <<>>
    /\ failures = {}

FnInit ==
    /\ call \in RowCalls \cup RowsCalls \cup HeaderCalls
    /\ receiverAlive \in (IF call.fn = "generate_batch" THEN BOOLEAN ELSE {TRUE})
    /\ CallIdle

\* schema.rs:82-118
CallGenerateRow ==
    /\ call.fn = "generate_row" /\ ~result.done
    /\ \E overflow_checks \in BOOLEAN :
         result' = [done |-> TRUE,
                    value |-> generate_row(call.delimiter, call.fields, overflow_checks)]
    /\ UNCHANGED <<call, cfgVars, ownerVars, workerVars, chanVars, sinkVars, s3Vars,
                   failures>>

\* schema.rs:120-130
CallGenerateRows ==
    /\ call.fn = "generate_rows" /\ ~result.done
    /\ result' = [done |-> TRUE, value |-> generate_rows(call.rows, call.size)]
    /\ UNCHANGED <<call, cfgVars, ownerVars, workerVars, chanVars, sinkVars, s3Vars,
                   failures>>

\* util.rs:223-230  generate_batch(schema, batch_size, channel, rng)
CallGenerateBatch ==
    /\ call.fn = "generate_batch" /\ ~result.done
    /\ LET r == generate_rows(call.rows, call.size) IN
         /\ result' = [done |-> TRUE, value |-> r, outcome |-> BatchOutcome(r)]
         /\ IF BatchOutcome(r) = "ok"
            THEN /\ chan' = Enqueue(chan, Message(0, r))
                 /\ sentLog' = Append(sentLog, Message(0, r))
                 /\ sent' = [sent EXCEPT ![0] = @ + 1]
                 /\ UNCHANGED failures
            ELSE /\ failures' = failures \cup {BatchOutcome(r)}
                 /\ UNCHANGED <<chan, sentLog, sent>>
    /\ UNCHANGED <<call, cfgVars, ownerVars, spawned, joined, wstate, receiverAlive,
                   sinkVars, s3Vars>>

\* schema.rs:66-80
CallGenerateHeader ==
    /\ call.fn = "generate_header" /\ ~result.done
    /\ result' = [done |-> TRUE, value |-> generate_header(call.delimiter, call.names)]
    /\ UNCHANGED <<call, cfgVars, ownerVars, workerVars, chanVars, sinkVars, s3Vars,
                   failures>>

FnNext ==
    \/ CallGenerateRow
    \/ CallGenerateRows
    \/ CallGenerateBatch
    \/ CallGenerateHeader

FnSpec == FnInit /\ [][FnNext]_vars

\* ---------------------------------------------------- config.rs, load

\* the command line: getopts accepts it or not; -l (none, stdout, a file, a
\* file the logger cannot be initialized with), -h, the free argument
\* (none, a readable file, a file that cannot be opened, a URL whose
\* download fails), -n, -b, -t, -o, -f, -d
Args ==
    [parse : {TRUE}, l : {"absent", "stdout", "run.log", "unwritable"}, h : BOOLEAN,
     input : {"absent", "file", "unreadable", "http_failed"},
     n : NumOpt(0..MaxOptRows), b : NumOpt(0..MaxOptBatch),
     t : NumOpt(0..MaxOptThreads \cup {MAX_THREADS - 1, MAX_THREADS, MAX_THREADS + 1}),
     o : {"absent", "stdout", "file", "postgresql", "s3", "csv"},
     f : {"absent", "out.txt", "bucket:key"}, d : BOOLEAN]

RejectedArgs ==
    [parse |-> FALSE, l |-> "absent", h |-> FALSE, input |-> "absent",
     n |-> [present |-> FALSE, parses |-> FALSE, value |-> 0],
     b |-> [present |-> FALSE, parses |-> FALSE, value |-> 0],
     t |-> [present |-> FALSE, parses |-> FALSE, value |-> 0],
     o |-> "absent", f |-> "absent", d |-> FALSE]

LoadInit ==
    /\ \E args \in Args \cup {RejectedArgs} : call = [fn |-> "load", args |-> args]
    /\ receiverAlive = TRUE
    /\ CallIdle

\* config.rs:47-236
CallLoad ==
    /\ call.fn = "load" /\ ~result.done
    /\ result' = [done |-> TRUE, value |-> load(call.args)]
    /\ UNCHANGED <<call, cfgVars, ownerVars, workerVars, chanVars, sinkVars, s3Vars,
                   failures>>

LoadNext == CallLoad

LoadSpec == LoadInit /\ [][LoadNext]_vars

\* ------------------------------------------- generators.rs, generate_date

Near(b) ==
    (IF b - MaxByteGap < 0 THEN 0 ELSE b - MaxByteGap)
        .. (IF b + MaxByteGap > MaxByte THEN MaxByte ELSE b + MaxByteGap)

DateInit ==
    /\ \E b0 \in Bytes, b2 \in Bytes :
          \E b1 \in Near(b2) : call = [fn |-> "generate_date", bytes |-> <<b0, b1, b2>>]
    /\ receiverAlive = TRUE
    /\ CallIdle

\* generators.rs:76-96
CallGenerateDate ==
    /\ call.fn = "generate_date" /\ ~result.done
    /\ result' = [done |-> TRUE, value |-> generate_date(call.bytes)]
    /\ UNCHANGED <<call, cfgVars, ownerVars, workerVars, chanVars, sinkVars, s3Vars,
                   failures>>

DateNext == CallGenerateDate

DateSpec == DateInit /\ [][DateNext]_vars

\* ------------------------------------------------------------- properties

Count(log, s) == Cardinality({i \in 1..Len(log) : log[i].src = s})

IsPrefix(a, b) == Len(a) <= Len(b) /\ \A i \in 1..Len(a) : a[i] = b[i]

RECURSIVE Bodies(_)
Bodies(parts) == IF parts = <<>> THEN <<>> ELSE Head(parts).body \o Bodies(Tail(parts))

\* What the sink has put into its output so far, in the order it did so.
Processed == IF output_mode = "S3" THEN Bodies(uploaded) \o data ELSE output

NonDivisible ==
    batch_size # 0 /\ num_threads # 0 /\ (num_rows \div batch_size) % num_threads # 0

Divisible ==
    batch_size # 0 /\ num_threads # 0 /\ (num_rows \div batch_size) % num_threads = 0

\* C1: when num_rows / batch_size is divisible by num_threads, a run that has
\* returned has delivered exactly num_rows / batch_size batches of batch_size
\* rows each to the sink: num_batches / num_threads from each of the
\* num_threads workers when num_threads > 1, all of them from the calling
\* context, with no worker spawned, when num_threads = 1.
C1_ExactBatches ==
    (gd = "returned" /\ Divisible) =>
        /\ Len(received) = num_rows \div batch_size
        /\ \A i \in 1..Len(received) : received[i].rows = batch_size
        /\ num_threads > 1 =>
              /\ Count(received, 0) = 0
              /\ \A w \in 1..num_threads :
                    Count(received, w) = (num_rows \div batch_size) \div num_threads
        /\ num_threads = 1 =>
              /\ Count(received, 0) = num_rows \div batch_size
              /\ spawned = 0
              /\ \A w \in Workers : wstate[w] = "unspawned"

C1_Witness ==
    /\ gd = "returned" /\ Divisible
    /\ num_threads = 2 /\ batch_size = 1
    /\ Count(received, 1) = 2 /\ Count(received, 2) = 2

\* C2: the sink sees end-of-stream only when every worker has terminated and
\* every sender is dropped, having received every batch that was sent; and
\* generate_data returns only after the output thread has finished.
C2_EndOfStream ==
    /\ sawEOS =>
          /\ ~ownerSender
          /\ gd \notin {"start", "compute", "spawn"}
          /\ \A w \in Workers : wstate[w] # "running"
          /\ chan = <<>>
          /\ received = sentLog
    /\ gd = "returned" => (sinkState = "done" /\ sawEOS)

C2_Witness ==
    /\ sawEOS /\ gd = "returned" /\ num_threads > 1
    /\ Len(sentLog) >= 2 /\ received = sentLog

\* C3: with (num_rows / batch_size) % num_threads # 0, generate_data fails
\* before any worker is started, any row generated or anything sent.
C3_RefusesNonDivisible ==
    NonDivisible =>
        /\ spawned = 0
        /\ \A s \in Sources : sent[s] = 0
        /\ sentLog = <<>>
        /\ gd \notin {"spawn", "join", "single", "join_output", "returned"}

\* C4: once row generation has failed in a worker or in the single-threaded
\* path, generate_data never returns normally; the calling context never
\* gets past the join of a worker that panicked, it panics there.
C4_GenFailurePropagates ==
    /\ "gen" \in failures => gd # "returned"
    /\ \A w \in 1..joined : wstate[w] = "done"
    /\ (gd = "panicked" /\ ownerError = "worker_join") => wstate[joined + 1] = "panicked"

C4_Witness ==
    /\ "gen" \in failures /\ failures = {"gen", "worker_join"}
    /\ gd = "panicked" /\ ownerError = "worker_join"
    /\ joined >= 1 /\ wstate[joined + 1] = "panicked"

\* C5: the sink processes batches in the order it received them, which is the
\* order they were sent in; two batches of one source are processed in the
\* order that source sent them.
C5_Fifo ==
    /\ IsPrefix(Processed, received)
    /\ IsPrefix(received, sentLog)
    /\ \A i, j \in 1..Len(Processed) :
          (i < j /\ Processed[i].src = Processed[j].src)
              => Processed[i].seq < Processed[j].seq

C5_Witness ==
    \E i, j, k \in 1..Len(Processed) :
        /\ i < k /\ k < j
        /\ Processed[i].src = Processed[j].src
        /\ Processed[k].src # Processed[i].src

\* C6: under fair scheduling a run in which nothing fails terminates: every
\* worker has ended after its batches, the sink has seen end-of-stream and
\* ended, and generate_data has returned.
C6_Terminates ==
    <>( \/ failures # {}
        \/ /\ gd = "returned"
           /\ sinkState = "done" /\ sawEOS
           /\ num_threads > 1 => \A w \in 1..num_threads :
                 wstate[w] = "done" /\ sent[w] = (num_rows \div batch_size) \div num_threads )

C6_Witness ==
    /\ failures = {} /\ gd = "returned" /\ sinkState = "done"
    /\ num_threads > 1 /\ Len(received) >= 2

\* C7: a failed upload_part makes the multipart sink issue exactly one abort
\* request, no completion request and no further upload.
C7_UploadFailureAborts ==
    ("upload" \in failures /\ sinkState = "panicked") =>
        (abortCalls = 1 /\ completeCalls = 0)

\* C8: a failed completion call is followed by exactly one abort request; a
\* failed abort is not retried.
C8_AbortOnce ==
    /\ abortCalls <= 1
    /\ sinkState = "aborting" => ("complete" \in failures /\ abortCalls = 0)
    /\ ("complete" \in failures /\ sinkState = "done") => abortCalls = 1
    /\ "abort" \in failures => (abortCalls = 1 /\ sinkState = "done")
    /\ abortCalls = 1 => "complete" \in failures

C8_Witness ==
    /\ "complete" \in failures /\ "abort" \in failures
    /\ sinkState = "done" /\ abortCalls = 1 /\ completeCalls = 1

\* C9: after a failed part upload or a failed completion call generate_data
\* does not end as a successful run.
C9_SinkFailureFailsRun ==
    gd = "returned" => failures \cap {"upload", "complete"} = {}

\* C10 (as stated): whenever the multipart sink waits for the next batch its
\* buffer holds fewer than 5 MiB.
C10_BelowThresholdWhenWaiting ==
    (output_mode = "S3" /\ sinkState = "loop") => DataLen(data) < PartThreshold

\* C10 (amended): the buffer is uploaded as one part and cleared whenever it
\* holds more than 5 MiB after an append; whenever the sink waits for the
\* next batch the buffer holds at most 5 MiB, and every part uploaded before
\* end-of-stream held more than 5 MiB.
C10_AtMostThresholdWhenWaiting ==
    (output_mode = "S3" /\ sinkState = "loop") =>
        /\ DataLen(data) <= PartThreshold
        /\ \A i \in 1..Len(uploaded) : DataLen(uploaded[i].body) > PartThreshold

C10_Witness ==
    /\ output_mode = "S3" /\ sinkState = "loop"
    /\ uploaded # <<>>
    /\ DataLen(data) = PartThreshold

\* C11: at end-of-stream the multipart sink makes exactly one upload call,
\* whose body is the remaining buffer whatever its size, and none afterwards.
C11_FinalPartOnce ==
    [][ output_mode = "S3" =>
          /\ (sawEOS' /\ ~sawEOS) =>
                /\ uploadCalls' = uploadCalls + 1
                /\ data' = <<>>
                /\ sinkState' = "completing" =>
                      /\ Len(uploaded') = Len(uploaded) + 1
                      /\ uploaded'[Len(uploaded')].body = data
          /\ sawEOS => (uploadCalls' = uploadCalls /\ uploaded' = uploaded) ]_vars

C11_Witness ==
    /\ output_mode = "S3" /\ sinkState = "completing" /\ sawEOS
    /\ Len(uploaded) >= 2
    /\ uploaded[Len(uploaded)].body # <<>>
    /\ DataLen(uploaded[Len(uploaded)].body) < PartThreshold

\* C12: part numbers are 1, 2, 3, ... in upload order; the completion request
\* is made once, after end-of-stream and the last flush, and lists one
\* (part_number, e_tag) pair per uploaded part, ascending, with that part's tag.
C12_PartNumbers ==
    output_mode = "S3" =>
        /\ part_number = Len(uploaded) + 1
        /\ \A i \in 1..Len(uploaded) : uploaded[i].part_number = i
        /\ Len(completed_parts) = Len(uploaded)
        /\ \A i \in 1..Len(completed_parts) :
              /\ completed_parts[i].part_number = i
              /\ completed_parts[i].e_tag = uploaded[i].e_tag
        /\ completeCalls <= 1
        /\ completeCalls = 1 =>
              /\ sawEOS /\ data = <<>> /\ chan = <<>>
              /\ completeList = completed_parts

C12_Witness ==
    /\ output_mode = "S3" /\ completeCalls = 1
    /\ Len(completeList) >= 3

TwelveMiB == 12 * (PartThreshold \div 5)

\* what the completion request lists: one pair per uploaded part, ascending
CompletionListsUploaded ==
    /\ Len(completeList) = Len(uploaded)
    /\ \A i \in 1..Len(completeList) :
          completeList[i] = [e_tag |-> uploaded[i].e_tag, part_number |-> i]

\* C13 (as stated): batches that sum to exactly 12 MiB give exactly 3 parts,
\* two of at least 5 MiB and a final one, and a completion listing 3 pairs.
C13_ThreeParts ==
    (output_mode = "S3" /\ completeCalls = 1 /\ DataLen(received) = TwelveMiB) =>
        /\ Len(uploaded) = 3
        /\ DataLen(uploaded[1].body) >= PartThreshold
        /\ DataLen(uploaded[2].body) >= PartThreshold
        /\ CompletionListsUploaded

\* C13 (amended): batches that sum to exactly 12 MiB give 2 or 3 parts: one or
\* two parts of more than 5 MiB each, cut at batch boundaries, then one final
\* part with the rest (possibly empty); the completion request lists one pair
\* per uploaded part in ascending order.
C13_TwoOrThreeParts ==
    (output_mode = "S3" /\ completeCalls = 1 /\ DataLen(received) = TwelveMiB) =>
        /\ Len(uploaded) \in {2, 3}
        /\ \A i \in 1..(Len(uploaded) - 1) : DataLen(uploaded[i].body) > PartThreshold
        /\ Bodies(uploaded) = received
        /\ CompletionListsUploaded

C13_Witness ==
    /\ output_mode = "S3" /\ completeCalls = 1 /\ DataLen(received) = TwelveMiB
    /\ Len(uploaded) = 3 /\ Len(received) = 4

\* C14: every uploaded part other than the one flushed at end-of-stream holds
\* at least 5 MiB.
C14_MinimumPartSize ==
    output_mode = "S3" =>
        \A i \in 1..Len(uploaded) :
            (i < Len(uploaded) \/ ~sawEOS) => DataLen(uploaded[i].body) >= PartThreshold

C14_Witness ==
    /\ output_mode = "S3" /\ sinkState = "done" /\ Len(uploaded) = 2
    /\ DataLen(uploaded[1].body) > PartThreshold
    /\ DataLen(uploaded[2].body) < PartThreshold
    /\ uploaded[2].body # <<>>

\* C15: when create_multipart_upload fails nothing else happens: no output
\* thread, no worker, no batch generated, sent or uploaded; generate_data
\* has panicked.
C15_InitiateFailureStopsRun ==
    "initiate" \in failures =>
        /\ gd = "panicked" /\ ownerError = "initiate"
        /\ sinkState = "none" /\ ~receiverAlive /\ sessions = 0
        /\ spawned = 0 /\ \A w \in Workers : wstate[w] = "unspawned"
        /\ \A x \in Sources : sent[x] = 0
        /\ sentLog = <<>> /\ chan = <<>> /\ received = <<>>
        /\ uploadCalls = 0 /\ completeCalls = 0 /\ abortCalls = 0

C15_Witness ==
    /\ "initiate" \in failures /\ gd = "panicked"
    /\ num_rows >= 2 /\ batch_size = 1 /\ num_threads = 2

\* C16: a sink leaves its loop only on a closed and drained channel; no
\* received batch, whatever its text, ends the multipart loop, and every
\* batch received so far is in the buffer or in an uploaded part.
C16_EndsOnlyOnClosure ==
    /\ sinkState \in {"completing", "aborting", "done"} =>
          /\ sawEOS /\ ~SendersAlive /\ chan = <<>>
          /\ received = sentLog
    /\ \A i \in 1..Len(received) : ~IsDone(received[i].text)
    /\ (output_mode = "S3" /\ sinkState \in {"loop", "completing", "aborting", "done"})
          => Processed = received

C16_Witness ==
    /\ schema = "done" /\ output_mode = "S3" /\ sinkState = "done"
    /\ Len(received) >= 2 /\ batch_size = 1

\* ------------------------------------------------ schema.rs, call by call

RECURSIVE Lines(_, _)
\* the first n rows, each followed by one newline
Lines(rows, n) ==
    IF n = 0 THEN <<>> ELSE Lines(rows, n - 1) \o rows[n].text \o <<"\n">>

Newlines(text) == Cardinality({k \in 1..Len(text) : text[k] = "\n"})

\* C17: a successful generate_rows(N) returns the N rows in order, each
\* followed by one newline, the last included: N newlines in all, and the
\* empty string for N = 0.
C17_NewlineTerminatedRows ==
    (call.fn = "generate_rows" /\ result.done /\ result.value.ok) =>
        /\ result.value.text = Lines(call.rows, call.size)
        /\ Newlines(result.value.text) = call.size
        /\ result.value.rows = call.size
        /\ call.size = 0 => result.value.text = <<>>

C17_Witness ==
    /\ call.fn = "generate_rows" /\ result.done /\ result.value.ok
    /\ call.size = 2
    /\ call.rows[1].text # <<>>
    /\ call.rows[1].text # call.rows[2].text

\* C18: when a row of the batch fails, generate_rows returns that row's
\* error and no text, and generate_batch sends nothing.
C18_AllOrNothing ==
    (call.fn \in {"generate_rows", "generate_batch"} /\ result.done
        /\ \E i \in 1..call.size : ~call.rows[i].ok) =>
        /\ ~result.value.ok
        /\ result.value.text = <<>>
        /\ \E i \in 1..call.size :
              /\ \A j \in 1..(i - 1) : call.rows[j].ok
              /\ result.value.err = call.rows[i]
        /\ chan = <<>> /\ sentLog = <<>> /\ sent[0] = 0

C18_Witness ==
    /\ call.fn = "generate_batch" /\ result.done /\ receiverAlive
    /\ call.size = 2
    /\ call.rows[1].ok /\ call.rows[1].text # <<>>
    /\ ~call.rows[2].ok

\* C19: in fixed-width mode, when a field of the schema has no length,
\* generate_row returns an error that names a field without length, and no
\* row text.
C19_MissingLengthNamed ==
    (call.fn = "generate_row" /\ result.done /\ call.delimiter = Fixed
        /\ \E i \in 1..Len(call.fields) : call.fields[i].length = <<>>) =>
        /\ result.value.outcome = "Err"
        /\ result.value.error = "length"
        /\ result.value.field \in 1..Len(call.fields)
        /\ call.fields[result.value.field].length = <<>>
        /\ result.value.text = <<>>

RECURSIVE SumLengths(_)
SumLengths(fields) ==
    IF fields = <<>> THEN 0 ELSE Head(fields).length[1] + SumLengths(Tail(fields))

\* C20: in fixed-width mode every field with a padding character is emitted
\* with exactly `length` characters, the padding to the left of the value;
\* a row whose fields all have padding is as long as the sum of the lengths.
C20_PaddedToLength ==
    (call.fn = "generate_row" /\ result.done /\ call.delimiter = Fixed
        /\ result.value.ok) =>
        /\ \A i \in 1..Len(call.fields) :
              call.fields[i].padding # <<>> =>
                 /\ Len(result.value.parts[i]) = call.fields[i].length[1]
                 /\ \E k \in 0..call.fields[i].length[1] :
                       result.value.parts[i] =
                          Repeat(call.fields[i].padding[1], k) \o call.fields[i].value
        /\ (\A i \in 1..Len(call.fields) : call.fields[i].padding # <<>>) =>
              Len(result.value.text) = SumLengths(call.fields)

\* C21: in fixed-width mode (every field with a length), when a field without
\* padding has a value whose length differs from `length`, generate_row
\* returns the padding error naming such a field and no row text.
C21_MismatchRejected ==
    (call.fn = "generate_row" /\ result.done /\ call.delimiter = Fixed
        /\ (\A j \in 1..Len(call.fields) : call.fields[j].length # <<>>)
        /\ (\E i \in 1..Len(call.fields) :
              /\ call.fields[i].padding = <<>>
              /\ Len(call.fields[i].value) # call.fields[i].length[1])) =>
        /\ result.value.outcome = "Err"
        /\ result.value.error = "padding"
        /\ result.value.field \in 1..Len(call.fields)
        /\ call.fields[result.value.field].padding = <<>>
        /\ Len(call.fields[result.value.field].value)
              # call.fields[result.value.field].length[1]
        /\ result.value.text = <<>>

RECURSIVE Strip(_, _)
\* s without its leading characters c
Strip(s, c) == IF s # <<>> /\ Head(s) = c THEN Strip(Tail(s), c) ELSE s

\* the (at most n) characters of text after the first `from`
Piece(text, from, n) ==
    [k \in 1..(IF Len(text) - from < 0 THEN 0
               ELSE IF Len(text) - from < n THEN Len(text) - from ELSE n) |-> text[from + k]]

\* field i of a fixed-width row, cut at the lengths of the schema
Column(text, fields, i) ==
    Piece(text, SumLengths(SubSeq(fields, 1, i - 1)), fields[i].length[1])

\* C22: cutting a generated fixed-width row at the field lengths and stripping
\* each field's padding character gives back the generated values.
C22_RoundTrip ==
    (call.fn = "generate_row" /\ result.done /\ call.delimiter = Fixed
        /\ result.value.ok) =>
        \A i \in 1..Len(call.fields) :
            (IF call.fields[i].padding = <<>>
             THEN Column(result.value.text, call.fields, i)
             ELSE Strip(Column(result.value.text, call.fields, i),
                        call.fields[i].padding[1]))
            = call.fields[i].value

RECURSIVE Joined(_, _, _)
\* the first n values, the delimiter string between two of them
Joined(fields, delimiter, n) ==
    IF n = 0 THEN <<>>
    ELSE IF n = 1 THEN fields[1].value
    ELSE Joined(fields, delimiter, n - 1) \o <<delimiter>> \o fields[n].value

\* C23: with a delimiter other than "fixed", generate_row succeeds whatever
\* the lengths and paddings of the fields, and returns the values in field
\* order with the delimiter string between them and no line terminator.
C23_DelimitedRow ==
    (call.fn = "generate_row" /\ result.done /\ call.delimiter # Fixed) =>
        /\ result.value.ok
        /\ result.value.text = Joined(call.fields, call.delimiter, Len(call.fields))
        /\ Newlines(result.value.text) = 0

C23_Witness ==
    /\ call.fn = "generate_row" /\ result.done /\ call.delimiter # Fixed
    /\ Len(call.fields) = 2
    /\ call.fields[1].length = <<>>
    /\ call.fields[2].length = <<0>> /\ call.fields[2].padding = <<>>
    /\ Len(call.fields[1].value) = 1 /\ Len(call.fields[2].value) = 2

RECURSIVE JoinedNames(_, _, _)
\* the first n names, with the delimiter string between two of them, or
\* nothing in fixed-width mode
JoinedNames(names, delimiter, n) ==
    IF n = 0 THEN <<>>
    ELSE IF n = 1 THEN names[1]
    ELSE JoinedNames(names, delimiter, n - 1)
            \o (IF delimiter = Fixed THEN <<>> ELSE <<delimiter>>) \o names[n]

\* C24: generate_header returns the field names in field order, joined as
\* the values of a row are, followed by one newline.
C24_HeaderLine ==
    (call.fn = "generate_header" /\ result.done) =>
        result.value.text
            = JoinedNames(call.names, call.delimiter, Len(call.names)) \o <<"\n">>

\* ------------------------------------------------------- generators.rs

DaysIn(month) ==
    CASE month \in {1, 3, 5, 7, 8, 10, 12} -> 31
      [] month = 2 -> 28
      [] OTHER -> 30

\* C30: whatever the three bytes, generate_date gives a month in 1..12, a day
\* in 1..days_in(month) (28 for February) and a year in 1901..2016, and no
\* 8- or 16-bit intermediate value overflows.
C30_DateInRange ==
    (call.fn = "generate_date" /\ result.done) =>
        /\ result.value.month \in 1..12
        /\ result.value.day \in 1..DaysIn(result.value.month)
        /\ result.value.year \in 1901..2016
        /\ ~result.value.overflow

C30_Witness ==
    /\ call.fn = "generate_date" /\ result.done
    /\ call.bytes[3] = MaxByte
    /\ result.value.month = 2 /\ result.value.day = 28

\* the byte values for which generate_date gives month m, and those for
\* which it gives day d in the month that byte b0 selects
MonthBytes(m) == {b \in Bytes : generate_date(<<b, 0, 0>>).month = m}
DayBytes(b0, d) == {b \in Bytes : generate_date(<<b0, 0, b>>).day = d}

Within1(x, y) == x - y \in {-1, 0, 1}

\* C31: over the 256 values of the byte that determines it, the month a call
\* has given is given by as many byte values as every other month of 1..12,
\* up to a difference of one; and so is the day it has given, among the days
\* 1..days_in(month) of its month.
C31_Uniform ==
    (call.fn = "generate_date" /\ result.done) =>
        /\ \A m \in 1..12 :
              Within1(Cardinality(MonthBytes(m)),
                      Cardinality(MonthBytes(result.value.month)))
        /\ \A d \in 1..DaysIn(result.value.month) :
              Within1(Cardinality(DayBytes(call.bytes[1], d)),
                      Cardinality(DayBytes(call.bytes[1], result.value.day)))

\* ------------------------------------------------------------ config.rs

\* C29: for every value of the threads option (the input file readable, the
\* batch size not 0), load either yields a Config whose num_threads is in
\* 1..128 or returns an error.
C29_ThreadsInRange ==
    (call.fn = "load" /\ result.done /\ call.args.input = "file"
        /\ NumOr(call.args.b, BATCH_SIZE_DEFAULT) # 0) =>
        \/ result.value.outcome = "Err"
        \/ /\ result.value.outcome = "Ok"
           /\ result.value.config.num_threads \in 1..MAX_THREADS

\* ------------------------------------------------------- util.rs, again

\* a configuration initialize_output_thread cannot serve: no sink for the
\* mode, or no usable output file for a mode that needs one
ConfigError ==
    \/ output_mode = "None"
    \/ output_mode = "PostgreSQL"
    \/ output_mode = "File" /\ output_file = "absent"
    \/ output_mode = "S3" /\ output_file \in {"absent", "output.txt"}

\* C28: with such a configuration generate_data panics in
\* initialize_output_thread and nothing else happens: no output thread, no
\* worker, no batch generated or sent, nothing written, created or uploaded.
C28_ConfigErrorIsFatal ==
    ConfigError =>
        /\ gd \in {"start", "panicked"}
        /\ gd = "panicked" => ownerError = "config"
        /\ sinkState = "none" /\ ~receiverAlive
        /\ spawned = 0 /\ \A w \in Workers : wstate[w] = "unspawned"
        /\ \A x \in Sources : sent[x] = 0
        /\ sentLog = <<>> /\ received = <<>>
        /\ output = <<>> /\ filesCreated = 0
        /\ sessions = 0 /\ uploadCalls = 0

C28_Witness ==
    /\ ConfigError /\ gd = "panicked" /\ ownerError = "config"
    /\ output_mode = "PostgreSQL"
    /\ num_rows >= 2 /\ batch_size = 1 /\ num_threads = 2

\* C27: the file sink creates one destination file, and when it has ended
\* at end-of-stream the file holds the received batches, whole and in the
\* order received, with nothing left in the writer.
C27_FileHoldsEveryBatch ==
    (output_mode = "File" /\ sinkState = "done") =>
        /\ filesCreated = 1
        /\ writer = <<>>
        /\ file = received


\* A header line among the messages: one sent by the calling context ahead
\* of its batches, which are numbered from 1.
IsHeader(m) == m.src = 0 /\ m.seq = 0

\* C25: with display_header set, once a worker has been started or a batch
\* sent, exactly one header has been sent and it is the first message of
\* the channel (so the first the sink receives); with display_header not
\* set, no header is ever sent.
C25_HeaderFirstAndOnce ==
    LET headers == {i \in 1..Len(sentLog) : IsHeader(sentLog[i])} IN
    IF display_header
    THEN (spawned > 0 \/ sentLog # <<>>) => headers = {1}
    ELSE headers = {}


\* C26: once a worker has panicked, every worker of the run still comes to
\* its own end: it panics itself, or it ends normally having sent all of its
\* batches_per_thread batches; none is left stopped in between.
C26_SiblingsRunToCompletion ==
    (\E v \in Workers : wstate[v] = "panicked")
    ~> (\A w \in 1..num_threads :
            \/ wstate[w] = "panicked"
            \/ wstate[w] = "done" /\ sent[w] = batches_per_thread)

\* a worker has panicked before sending anything, the calling context has
\* panicked on its join, and the sibling has ended with all its batches sent
C26_Witness ==
    /\ wstate[1] = "panicked" /\ sent[1] = 0
    /\ gd = "panicked" /\ ownerError = "worker_join"
    /\ wstate[2] = "done" /\ batches_per_thread >= 1
    /\ sent[2] = batches_per_thread
    /\ Len(SelectSeq(sentLog, LAMBDA m : m.src = 2)) = batches_per_thread


\* the rows of a sequence of batches
RECURSIVE RowsIn(_)
RowsIn(s) == IF s = <<>> THEN 0 ELSE Head(s).rows + RowsIn(Tail(s))

\* C32: a run that has returned (so without reporting an error) has
\* delivered floor(num_rows / batch_size) * batch_size rows to the sink: the
\* num_rows mod batch_size remaining rows, and no others, are left out.
C32_RowsDelivered ==
    gd = "returned" =>
        RowsIn(received) = (num_rows \div batch_size) * batch_size


\* the bytes of a sequence of batches, concatenated
RECURSIVE TextOf(_)
TextOf(s) == IF s = <<>> THEN <<>> ELSE Head(s).text \o TextOf(Tail(s))

\* the bytes of the parts the store holds, in ascending part-number order
RECURSIVE PartsText(_)
PartsText(n) ==
    IF n = 0 THEN <<>>
    ELSE LET p == CHOOSE q \in {uploaded[i] : i \in 1..Len(uploaded)} : q.part_number = n
         IN PartsText(n - 1) \o TextOf(p.body)

\* C33: in the multipart sink, as long as no upload has failed, the parts
\* uploaded so far, taken in ascending part-number order, followed by the
\* accumulation buffer, are byte for byte the batches received so far in
\* receive order; once the loop has ended the buffer is empty, so the parts
\* alone are the whole stream.
C33_PartsAreTheStream ==
    (output_mode = "S3" /\ sinkState \in {"loop", "completing", "aborting", "done"}) =>
        /\ {uploaded[i].part_number : i \in 1..Len(uploaded)} = 1..Len(uploaded)
        /\ PartsText(Len(uploaded)) \o TextOf(data) = TextOf(received)
        /\ sinkState # "loop" => data = <<>>

\* a stream of three batches of different sizes that ended up in two parts,
\* the boundary falling after the second batch
C33_Witness ==
    /\ output_mode = "S3" /\ sinkState = "done"
    /\ Len(received) = 3 /\ Len(uploaded) = 2
    /\ Len(uploaded[1].body) = 2 /\ Len(uploaded[2].body) = 1
    /\ received[1].len # received[2].len


\* C34: a multipart stream that has reached end-of-stream has made an upload
\* call for it, whether or not the buffer held anything; when that call
\* succeeded at least one part is in the store, and a completion request
\* never lists no part.
C34_PartAtEndOfStream ==
    output_mode = "S3" =>
        /\ sawEOS => uploadCalls >= 1
        /\ (sawEOS /\ sinkState # "panicked") =>
              /\ uploaded # <<>>
              /\ uploadCalls = Len(uploaded)
        /\ completeCalls >= 1 => completeList # <<>>

\* the last batch made the buffer exceed the threshold and was uploaded with
\* it, so the part of end-of-stream holds zero bytes; it is listed all the same
C34_Witness ==
    /\ output_mode = "S3" /\ sinkState = "done" /\ completeCalls = 1
    /\ Len(uploaded) = 2 /\ Len(completeList) = 2
    /\ uploaded[1].body # <<>>
    /\ uploaded[1].body[Len(uploaded[1].body)] = received[Len(received)]
    /\ uploaded[2].body = <<>> /\ DataLen(uploaded[2].body) = 0


\* C35: once the output thread has ended by a panic, no send succeeds any
\* more and the run never returns as a successful one; under fair scheduling
\* it does not hang either: generate_data panics and no worker is left
\* running, a worker that still had a batch to send ending by a panic.
C35_SinkGoneFailsTheRun ==
    /\ [][sinkState = "panicked" => (sentLog' = sentLog /\ chan' = chan)]_vars
    /\ [](sinkState = "panicked" => gd # "returned")
    /\ (sinkState = "panicked")
         ~> (/\ gd = "panicked"
             /\ \A w \in Workers :
                   \/ wstate[w] \in {"unspawned", "panicked"}
                   \/ wstate[w] = "done" /\ sent[w] = batches_per_thread)

\* an upload has failed while a worker still had a batch to send: its send
\* has failed, and generate_data has panicked on joining it
C35_Witness ==
    /\ sinkState = "panicked" /\ "upload" \in failures /\ "send" \in failures
    /\ \E w \in 1..num_threads : wstate[w] = "panicked" /\ sent[w] < batches_per_thread
    /\ gd = "panicked" /\ ownerError = "worker_join"


\* C36: a sender that has a batch left to send can always take its step,
\* however many batches are queued and wherever the output thread is; the
\* queue never holds more than num_batches batches.
C36_SendNeverBlocks ==
    /\ \A w \in Workers :
          (wstate[w] = "running" /\ sent[w] < batches_per_thread)
              => ENABLED WorkerBatch(w)
    /\ (gd = "single" /\ sent[0] < num_batches) => ENABLED SingleBatch
    /\ chan # <<>> => Len(chan) <= num_batches

\* both workers have sent all their batches and ended while the output
\* thread has not taken a single batch: the whole job is in the queue
C36_Witness ==
    /\ wstate[1] = "done" /\ wstate[2] = "done"
    /\ num_threads = 2 /\ batches_per_thread = 2
    /\ receiverAlive /\ received = <<>>
    /\ Len(chan) = num_batches /\ Len(chan) = 4


\* the command lines that ask for this run and are otherwise in order: a
\* readable schema, a usable log, the numbers given with -n, -b and -t
CommandLines ==
    [parse : {TRUE}, l : {"absent", "run.log"}, h : {FALSE}, input : {"file"},
     n : {[present |-> TRUE, parses |-> TRUE, value |-> num_rows]},
     b : {[present |-> TRUE, parses |-> TRUE, value |-> batch_size]},
     t : {[present |-> TRUE, parses |-> TRUE, value |-> num_threads]},
     o : {"absent", "stdout", "file", "postgresql", "s3", "csv"},
     f : {"absent", "out.txt", "bucket:key"}, d : BOOLEAN]

\* what holds of a run with batch_size = 0 or num_threads = 0 whatever the
\* state of the sink: load panics on its command line, generate_data never
\* gets past the divisions and ends by a panic if it ends, no worker is
\* spawned and nothing is generated or sent
ZeroDivisorRun ==
    /\ \A a \in CommandLines :
          load(a).outcome = "panic" /\ load(a).error = "divzero"
    /\ gd \in {"start", "compute", "panicked"}
    /\ gd = "panicked" => ownerError \in {"config", "initiate", "divzero"}
    /\ spawned = 0 /\ sentLog = <<>> /\ received = <<>>
    /\ \A x \in Sources : sent[x] = 0

\* C37 (as stated): with batch_size = 0 or num_threads = 0, load and
\* generate_data panic on the division instead of returning an error, no row
\* is generated, and when generate_data panics on the division the sink has
\* been initialized: the file created, the multipart session initiated.
C37_PanicAfterSinkInitialized ==
    (batch_size = 0 \/ num_threads = 0) =>
        /\ ZeroDivisorRun
        /\ ownerError = "divzero" =>
              /\ output_mode = "File" => filesCreated = 1
              /\ output_mode = "S3" => sessions = 1

\* C37 (amended): with batch_size = 0 or num_threads = 0, load and
\* generate_data panic on the division instead of returning an error, no row
\* is generated, and when generate_data panics on the division
\* initialize_output_thread has returned: the output thread has been spawned
\* and, in S3 mode, the multipart session initiated; in File mode the file
\* is created by the output thread, which may not have done so yet.
C37_PanicAfterSinkStarted ==
    (batch_size = 0 \/ num_threads = 0) =>
        /\ ZeroDivisorRun
        /\ ownerError = "divzero" =>
              /\ sinkState # "none"
              /\ output_mode = "File" =>
                    (filesCreated = 1) = (sinkState \in {"loop", "done"})
              /\ output_mode = "S3" => sessions = 1

\* generate_data has panicked on num_batches / 0 threads while the output
\* thread of the file sink has not created the file yet
C37_Witness ==
    /\ num_threads = 0 /\ batch_size = 1 /\ num_rows = 2
    /\ gd = "panicked" /\ ownerError = "divzero"
    /\ output_mode = "File" /\ sinkState = "starting" /\ filesCreated = 0

====
